---- MODULE Spec2Model ----
(***************************************************************************)
(* Safe Harbour server scripts: ner_extract.py (name normalisation, roster *)
(* matching, PERSON extraction, the script's response protocol) and        *)
(* sanitize_pdf.py (command line handling of the sanitizer).               *)
(*                                                                         *)
(* Strings are sequences of one-character strings.  Python's None and a    *)
(* JSON null are the value Null.                                           *)
(***************************************************************************)
EXTENDS Integers, Sequences, FiniteSets, TLC

VARIABLES base, name, key, rekey, npc,
          entity_text, known_names, uin, mpc,
          spacy_installed, model_present, stdin, text, ents, pos, entities,
          stdout, exit_code, raised, rpc,
          rosters, spanlists, frames, returned,
          argv, files, input_path, output_path, console, status, spc

normVars == <<base, name, key, rekey, npc>>
matchVars == <<entity_text, uin, mpc>>
runVars == <<spacy_installed, model_present, stdin, text, ents, pos, entities,
             stdout, exit_code, raised, rpc>>

callVars == <<rosters, spanlists, frames, returned>>
sanVars == <<argv, files, input_path, output_path, console, status, spc>>

vars == <<normVars, matchVars, known_names, runVars, callVars, sanVars>>

\* ------------------------------------------------------------------ bounds
\* longest string handed to normalize_name
MaxLen == 5

\* largest input of find_matching_uin: the characters of the detected name
\* and of the roster's names, plus one for every roster entry
MaxSize == 7
\* most spans the recognizer returns for one text
MaxSpans == 2
\* most calls one caller makes
MaxCalls == 2
\* most arguments on the sanitizer's command line
MaxArgs == 2

\* ------------------------------------------------------------- characters
Uppercase == {"A", "B"}
Whitespace == {" ", "\t"}

\* Python None / JSON null
Null == <<"null">>

\* the result of a call that raised instead of returning
Raised == <<"raised">>

RECURSIVE Strs(_, _)
\* every string over the characters `chars` of length <= n
Strs(chars, n) ==
  IF n = 0 THEN {<<>>}
  ELSE LET shorter == Strs(chars, n - 1)
       IN shorter \cup {Append(x, c) : x \in {y \in shorter : Len(y) = n - 1}, c \in chars}

\* ------------------------------------------------------ str methods used
\* str.lower(), one character
LowerChar(c) == IF c = "A" THEN "a" ELSE IF c = "B" THEN "b" ELSE c

\* str.lower()
lower(str) == [i \in 1..Len(str) |-> LowerChar(str[i])]

RECURSIVE lstrip(_)
lstrip(str) ==
  IF str # <<>> /\ Head(str) \in Whitespace THEN lstrip(Tail(str)) ELSE str

RECURSIVE rstrip(_)
rstrip(str) ==
  IF str # <<>> /\ str[Len(str)] \in Whitespace
  THEN rstrip(SubSeq(str, 1, Len(str) - 1))
  ELSE str

\* str.strip()
strip(str) == rstrip(lstrip(str))

RECURSIVE TakeWord(_)
\* the longest whitespace-free prefix
TakeWord(str) ==
  IF str = <<>> \/ Head(str) \in Whitespace THEN <<>>
  ELSE <<Head(str)>> \o TakeWord(Tail(str))

RECURSIVE split(_)
\* str.split(): the maximal whitespace-free runs, in order
split(str) ==
  LET rest == lstrip(str)
      word == TakeWord(rest)
  IN IF rest = <<>> THEN <<>>
     ELSE <<word>> \o split(SubSeq(rest, Len(word) + 1, Len(rest)))

RECURSIVE join(_, _)
\* sep.join(parts)
join(sep, parts) ==
  IF parts = <<>> THEN <<>>
  ELSE IF Len(parts) = 1 THEN parts[1]
  ELSE parts[1] \o sep \o join(sep, Tail(parts))

RECURSIVE ReplaceDouble(_)
\* str.replace("  ", " "): one pass, left to right, over non-overlapping pairs
ReplaceDouble(str) ==
  IF Len(str) < 2 THEN str
  ELSE IF str[1] = " " /\ str[2] = " "
       THEN <<" ">> \o ReplaceDouble(SubSeq(str, 3, Len(str)))
       ELSE <<str[1]>> \o ReplaceDouble(Tail(str))

\* a faulty normalize_name: double spaces are replaced once instead of
\* splitting on whitespace runs
normalize_name_replace(str) == ReplaceDouble(strip(lower(str)))

\* a faulty normalize_name: the case is kept
normalize_name_nolower(str) == join(<<" ">>, split(strip(str)))

\* ner_extract.py normalize_name
normalize_name(str) == join(<<" ">>, split(strip(lower(str))))

\* ================================================================ SpecNorm
\* normalize_name applied to a string and to its own result.  `base` is a
\* string, `name` a spelling of it that differs in letter case, in leading
\* and trailing whitespace and in the length of whitespace runs.

IdleMatch ==
  /\ entity_text = <<>>
  /\ uin = Null
  /\ mpc = "idle"

\* nobody calls the functions
IdleCalls ==
  /\ rosters = <<>>
  /\ spanlists = <<>>
  /\ frames = <<>>
  /\ returned = {}

\* the sanitizer is not running
IdleSan ==
  /\ argv = <<>>
  /\ files = <<>>
  /\ input_path = ""
  /\ output_path = ""
  /\ console = <<>>
  /\ status = <<>>
  /\ spc = "idle"

\* the script is not running
IdleRun ==
  /\ spacy_installed = TRUE
  /\ model_present = TRUE
  /\ stdin = Null
  /\ text = <<>>
  /\ ents = <<>>
  /\ pos = 1
  /\ entities = <<>>
  /\ stdout = <<>>
  /\ exit_code = <<>>
  /\ raised = ""
  /\ rpc = "idle"

InitNorm ==
  /\ IdleMatch
  /\ IdleRun
  /\ IdleCalls
  /\ IdleSan
  /\ known_names = <<>>
  /\ base \in Strs({"a", "A", " ", "\t"}, MaxLen)
  /\ name = base
  /\ key = Null
  /\ rekey = Null
  /\ npc = "spell"

\* the caller writes one letter in the other case
ToggleCase ==
  /\ npc = "spell"
  /\ \E i \in 1..Len(name) :
       /\ name[i] \in {"a", "A"}
       /\ name' = [name EXCEPT ![i] = IF name[i] = "a" THEN "A" ELSE "a"]
  /\ UNCHANGED <<base, key, rekey, npc, matchVars, known_names, runVars, callVars, sanVars>>

\* a position next to whitespace, or at either end of the string
AtWhitespaceOrEnd(str, i) ==
  IF i = 0 \/ i = Len(str) THEN TRUE
  ELSE str[i] \in Whitespace \/ str[i + 1] \in Whitespace

\* a whitespace character that is padding or has whitespace beside it
RemovableWhitespace(str, i) ==
  IF str[i] \notin Whitespace THEN FALSE
  ELSE IF i = 1 \/ i = Len(str) THEN TRUE
  ELSE str[i - 1] \in Whitespace \/ str[i + 1] \in Whitespace

\* the caller lengthens a whitespace run, or pads an end of the string,
\* with a space (the tabs of a spelling are those of `base`)
InsertWhitespace ==
  /\ npc = "spell"
  /\ Len(name) < MaxLen
  /\ \E i \in 0..Len(name) :
       /\ AtWhitespaceOrEnd(name, i)
       /\ name' = SubSeq(name, 1, i) \o <<" ">> \o SubSeq(name, i + 1, Len(name))
  /\ UNCHANGED <<base, key, rekey, npc, matchVars, known_names, runVars, callVars, sanVars>>

\* the caller shortens a whitespace run (never to nothing between two
\* tokens), or removes padding at an end of the string
DeleteWhitespace ==
  /\ npc = "spell"
  /\ \E i \in 1..Len(name) :
       /\ RemovableWhitespace(name, i)
       /\ name' = SubSeq(name, 1, i - 1) \o SubSeq(name, i + 1, Len(name))
  /\ UNCHANGED <<base, key, rekey, npc, matchVars, known_names, runVars, callVars, sanVars>>

\* key = normalize_name(name)
Normalize ==
  /\ npc = "spell"
  /\ key' = normalize_name(name)
  /\ npc' = "normalized"
  /\ UNCHANGED <<base, name, rekey, matchVars, known_names, runVars, callVars, sanVars>>

\* rekey = normalize_name(key)
Renormalize ==
  /\ npc = "normalized"
  /\ rekey' = normalize_name(key)
  /\ npc' = "renormalized"
  /\ UNCHANGED <<base, name, key, matchVars, known_names, runVars, callVars, sanVars>>

NextNorm ==
  \/ ToggleCase
  \/ InsertWhitespace
  \/ DeleteWhitespace
  \/ Normalize
  \/ Renormalize

SpecNorm == InitNorm /\ [][NextNorm]_vars

\* C5: normalising a key again changes nothing:
\* normalize_name(normalize_name(s)) = normalize_name(s), for every string,
\* the empty and the whitespace-only ones included.
C5_Idempotent == npc = "renormalized" => rekey = key

\* C5 witness: a string with upper case, padding and a long whitespace run
\* was normalised twice
C5_Witness ==
  /\ npc = "renormalized"
  /\ name # key
  /\ Len(split(name)) >= 2
  /\ Len(name) > Len(key)

\* C5 witness of the degenerate case: a whitespace-only string
C5_WitnessBlank == npc = "renormalized" /\ name # <<>> /\ key = <<>>

\* C6: two spellings that differ only in letter case, in leading/trailing
\* whitespace and in the length of whitespace runs have the same key; the key
\* has no upper-case letter, no leading or trailing whitespace, exactly one
\* space between consecutive tokens, and is empty for an empty or
\* whitespace-only string.
C6_Insensitive ==
  npc = "normalized" =>
    /\ key = normalize_name(base)
    /\ \A i \in 1..Len(key) : key[i] \notin Uppercase
    /\ key # <<>> => key[1] \notin Whitespace /\ key[Len(key)] \notin Whitespace
    /\ \A i \in 1..Len(key) :
         key[i] \in Whitespace =>
           key[i] = " " /\ i < Len(key) /\ key[i + 1] \notin Whitespace
    /\ (\A i \in 1..Len(name) : name[i] \in Whitespace) => key = <<>>

\* C6 witness: the spelling differs from the base in case and in spacing
\* and has two tokens
C6_Witness ==
  /\ npc = "normalized"
  /\ name # base
  /\ Len(name) # Len(base)
  /\ \E i \in 1..Len(key) : key[i] = " "
  /\ \E i \in 1..Len(name) : name[i] \in Uppercase

\* ================================================================ SpecMatch
\* find_matching_uin applied to a detected name and a roster.

\* dict.get(field, default)
Get(dict, field, default) == IF field \in DOMAIN dict THEN dict[field] ELSE default

RECURSIVE RosterSize(_)
\* the characters of the names of a roster, plus one for every entry
RosterSize(roster) ==
  IF roster = <<>> THEN 0
  ELSE 1 + Len(Get(Head(roster), "name", <<>>)) + RosterSize(Tail(roster))

Digits == <<"1", "2", "3", "4", "5", "6", "7", "8", "9">>

\* the roster entry at position i: {"name": str, "uin": "<i>"}, or
\* {"uin": "<i>"} when the name is left out
Entry(str, i, named) ==
  IF named THEN [name |-> str, uin |-> <<Digits[i]>>] ELSE [uin |-> <<Digits[i]>>]

Range(seq) == {seq[i] : i \in 1..Len(seq)}

\* a faulty ExactMatch: the roster name only has to start with the
\* detected name
ExactMatch_startswith(normalized_entity, known_normalized) ==
  /\ Len(normalized_entity) <= Len(known_normalized)
  /\ SubSeq(known_normalized, 1, Len(normalized_entity)) = normalized_entity

\* ner_extract.py:55  normalized_entity == known_normalized
ExactMatch(normalized_entity, known_normalized) ==
  normalized_entity = known_normalized

\* str in str
Contains(str, sub) ==
  \E i \in 0..(Len(str) - Len(sub)) : SubSeq(str, i + 1, i + Len(sub)) = sub

\* a faulty PartialMatch: the part is looked up in the roster name, not in
\* the list of its parts
PartialMatch_substring(normalized_entity, known_normalized) ==
  LET entity_parts == split(normalized_entity)
  IN \E p \in 1..Len(entity_parts) : Contains(known_normalized, entity_parts[p])

\* a faulty PartialMatch: the roster name is looked up in the detected name
PartialMatch_reversed(normalized_entity, known_normalized) ==
  Contains(normalized_entity, known_normalized)

\* ner_extract.py:59-65  any part of the entity is one of the known parts
PartialMatch(normalized_entity, known_normalized) ==
  LET entity_parts == split(normalized_entity)
      known_parts == split(known_normalized)
  IN \E p \in 1..Len(entity_parts) : entity_parts[p] \in Range(known_parts)

RECURSIVE ScanRoster(_, _, _)
\* the loop of find_matching_uin from the entry at position i on
ScanRoster(normalized_entity, roster, i) ==
  IF i > Len(roster) THEN Null
  ELSE LET known == roster[i]
           known_name == Get(known, "name", <<>>)
           known_normalized == normalize_name(known_name)
       IN IF known_name = Null
          THEN Raised  \* None has no attribute lower
          ELSE IF ExactMatch(normalized_entity, known_normalized)
          THEN Get(known, "uin", Null)
          ELSE IF PartialMatch(normalized_entity, known_normalized)
               THEN Get(known, "uin", Null)
               ELSE ScanRoster(normalized_entity, roster, i + 1)

\* a faulty find_matching_uin: the detected name is compared as written
find_matching_uin_raw(ent_text, roster) == ScanRoster(ent_text, roster, 1)

\* ner_extract.py find_matching_uin
find_matching_uin(ent_text, roster) == ScanRoster(normalize_name(ent_text), roster, 1)

IdleNorm ==
  /\ base = <<>>
  /\ name = <<>>
  /\ key = Null
  /\ rekey = Null
  /\ npc = "idle"

MatchChars == {"a", "A", "b", " "}

InitMatch ==
  /\ IdleNorm
  /\ IdleRun
  /\ IdleCalls
  /\ IdleSan
  /\ entity_text \in Strs(MatchChars, MaxSize)
  /\ known_names = <<>>
  /\ uin = Null
  /\ mpc = "roster"

\* the caller appends an entry to the roster: an empty name and the UIN of
\* its position, or the UIN alone
AddEntry ==
  /\ mpc = "roster"
  /\ Len(entity_text) + RosterSize(known_names) < MaxSize
  /\ \E named \in BOOLEAN :
       known_names' = Append(known_names, Entry(<<>>, Len(known_names) + 1, named))
  /\ UNCHANGED <<entity_text, uin, mpc, normVars, runVars, callVars, sanVars>>

\* the caller writes one more character of the last entry's name
TypeName ==
  /\ mpc = "roster"
  /\ known_names # <<>>
  /\ "name" \in DOMAIN known_names[Len(known_names)]
  /\ Len(entity_text) + RosterSize(known_names) < MaxSize
  /\ \E c \in MatchChars :
       known_names' = [known_names EXCEPT ![Len(known_names)].name = Append(@, c)]
  /\ UNCHANGED <<entity_text, uin, mpc, normVars, runVars, callVars, sanVars>>

\* uin = find_matching_uin(entity_text, known_names)
Match ==
  /\ mpc = "roster"
  /\ uin' = find_matching_uin(entity_text, known_names)
  /\ mpc' = "done"
  /\ UNCHANGED <<entity_text, known_names, normVars, runVars, callVars, sanVars>>

NextMatch ==
  \/ AddEntry
  \/ TypeName
  \/ Match

SpecMatch == InitMatch /\ [][NextMatch]_vars

\* the key of the detected name and of the roster entry at position i
DetectedKey == normalize_name(entity_text)
KnownKey(i) == normalize_name(Get(known_names[i], "name", <<>>))

\* the whole tokens of a key: its maximal runs without a space
Tokens(k) ==
  LET starts == {i \in 1..Len(k) : k[i] # " " /\ (i = 1 \/ k[i - 1] = " ")}
      ends == {j \in 1..Len(k) : k[j] # " " /\ (j = Len(k) \/ k[j + 1] = " ")}
  IN {SubSeq(k, i, CHOOSE j \in ends : j >= i /\ \A x \in ends : x >= i => j <= x) :
        i \in starts}

\* the entries a detected key matches: an equal key, or a shared whole token
CandidatesOf(detected) ==
  LET tokens == Tokens(detected)
  IN {i \in 1..Len(known_names) :
        \/ detected = KnownKey(i)
        \/ tokens \cap Tokens(KnownKey(i)) # {}}

EqualKey(i) == DetectedKey = KnownKey(i)
Candidates == CandidatesOf(DetectedKey)
First(set) == CHOOSE i \in set : \A j \in set : i <= j

\* C1: find_matching_uin returns the UIN of the lowest-index entry whose key
\* equals the detected key or contains one of its tokens as a whole token,
\* and null when there is no such entry (so always null for an empty roster).
C1_FirstMatch ==
  mpc = "done" =>
    LET candidates == Candidates
    IN /\ candidates # {} => uin = known_names[First(candidates)].uin
       /\ candidates = {} => uin = Null
       /\ known_names = <<>> => uin = Null

\* C1 witness: two entries match, the first of them only by a shared token
\* of its two, the other by an equal key, and the first one is returned
C1_Witness ==
  /\ mpc = "done"
  /\ Candidates = {1, 2}
  /\ ~EqualKey(1)
  /\ EqualKey(2)
  /\ uin = known_names[1].uin

\* C1 witness: the first entry does not match and the second one does
C1_WitnessLater ==
  /\ mpc = "done"
  /\ Candidates = {2}
  /\ KnownKey(1) # <<>>
  /\ uin = known_names[2].uin

\* C1 witness: a roster with entries, none of which matches
C1_WitnessNull ==
  /\ mpc = "done"
  /\ known_names # <<>>
  /\ DetectedKey # <<>>
  /\ uin = Null

\* the entries whose key equals the detected key, and those that share a
\* whole token with it
ExactEntries == {i \in 1..Len(known_names) : EqualKey(i)}
TokenEntries ==
  LET tokens == Tokens(DetectedKey)
  IN {i \in 1..Len(known_names) : tokens \cap Tokens(KnownKey(i)) # {}}

\* C2 as stated: whenever some entry's key equals the detected key,
\* find_matching_uin returns the UIN of such an entry, whatever the other
\* entries are and wherever it sits.
C2_ExactPrecedence ==
  mpc = "done" =>
    LET exact == ExactEntries
    IN exact # {} => uin \in {known_names[i].uin : i \in exact}

\* C2 amended: whenever some entry's key equals the detected key, written in
\* any case and spacing, find_matching_uin returns the UIN of the first such
\* entry, provided no earlier entry shares a whole token with the detected
\* key (an earlier entry that shares a token is returned instead).
C2_ExactUnlessEarlierPartial ==
  mpc = "done" =>
    LET exact == ExactEntries
        shared == TokenEntries
    IN /\ (exact # {} /\ \A j \in shared : j >= First(exact)) =>
            uin = known_names[First(exact)].uin
       /\ (exact # {} /\ \E j \in shared : j < First(exact)) =>
            uin = known_names[First(shared)].uin

\* C2 witness: the second entry's name is the detected name in another case
\* and spacing, the first entry shares nothing with it, and the second
\* entry's UIN is returned
C2_Witness ==
  /\ mpc = "done"
  /\ Len(known_names) >= 2
  /\ ExactEntries = {2}
  /\ TokenEntries = {2}
  /\ KnownKey(1) # <<>>
  /\ Get(known_names[2], "name", <<>>) # entity_text
  /\ lower(Get(known_names[2], "name", <<>>)) # lower(entity_text)
  /\ uin = known_names[2].uin

\* C7: an entry whose name is missing or empty has the empty key and is
\* never the entry returned for a detected name with a non-empty key; a
\* detected name with an empty key is never answered with an entry whose key
\* is non-empty.
C7_EmptyKeyOnlyMatchesEmpty ==
  mpc = "done" =>
    LET detected == DetectedKey
    IN \A i \in 1..Len(known_names) :
         /\ Get(known_names[i], "name", <<>>) = <<>> => KnownKey(i) = <<>>
         /\ (KnownKey(i) = <<>>) # (detected = <<>>) => uin # known_names[i].uin

\* C7 witness: the first entry has no name, the detected name has a
\* non-empty key, and the entry after it is returned
C7_Witness ==
  /\ mpc = "done"
  /\ Len(known_names) >= 2
  /\ "name" \notin DOMAIN known_names[1]
  /\ DetectedKey # <<>>
  /\ uin = known_names[2].uin

\* C7 witness of the converse: a blank detected name passes a named entry
\* and is answered with the empty-named entry after it
C7_WitnessBlank ==
  /\ mpc = "done"
  /\ Len(known_names) >= 2
  /\ entity_text # <<>>
  /\ DetectedKey = <<>>
  /\ KnownKey(1) # <<>>
  /\ uin = known_names[2].uin

\* C10: for a detected name with a non-empty key, find_matching_uin returns
\* what a matcher does that only tests each entry, in order, for a shared
\* whole token; the exact-match test changes the result only for a detected
\* name with the empty key.
C10_ExactSubsumed ==
  mpc = "done" =>
    LET shared == TokenEntries
        partialOnly == IF shared = {} THEN Null ELSE known_names[First(shared)].uin
    IN /\ DetectedKey # <<>> => uin = partialOnly
       /\ uin # partialOnly => DetectedKey = <<>>

\* C10 witness: the exact-match test fired, after an entry that matches
\* nothing, for a detected name spelt unlike the roster's
C10_Witness ==
  /\ mpc = "done"
  /\ DetectedKey # <<>>
  /\ ExactEntries = {2}
  /\ Candidates = {2}
  /\ KnownKey(1) # <<>>
  /\ entity_text # DetectedKey
  /\ uin = known_names[2].uin

\* C10 witness of the exception: with the empty key the exact-match test
\* alone decides
C10_WitnessEmptyKey ==
  /\ mpc = "done"
  /\ DetectedKey = <<>>
  /\ TokenEntries = {}
  /\ uin # Null

\* ==================================================================== Spec
\* One run of ner_extract.py: the import of spaCy, the load of the model,
\* main() reading the request from stdin, extract_person_entities over the
\* recognizer's spans, and the response printed on stdout.

\* the texts of the requests
Texts == {<<"A", " ", "b">>, <<"a">>}

\* the rosters of the requests: well formed, empty, an entry without a UIN,
\* and entries whose name is a JSON null
RunRosters ==
  { <<>>,
    <<[name |-> <<"a", " ", "b">>, uin |-> <<"1">>], [name |-> <<"b">>, uin |-> <<"2">>]>>,
    <<[name |-> <<"B">>], [uin |-> <<"2">>]>>,
    <<[name |-> <<"a">>, uin |-> <<"1">>], [name |-> Null, uin |-> <<"2">>]>>,
    <<[name |-> Null, uin |-> <<"1">>]>> }

\* the request bodies: {"text": ..., "known_names": ...}, either field
\* possibly left out, the text possibly not a string
Requests ==
  {[text |-> t, known_names |-> r] : t \in Texts \cup {Null}, r \in RunRosters}
    \cup {[text |-> t] : t \in Texts}
    \cup {[known_names |-> r] : r \in RunRosters}

\* what stdin holds: text that is not JSON, a JSON array, or a JSON object
Stdins ==
  {[kind |-> "malformed"], [kind |-> "array"]}
    \cup {[kind |-> "object", data |-> d] : d \in Requests}

Labels == {"PERSON", "ORG"}

\* the spans a recognizer can return for a text: any stretch of it, with a
\* label
Spans(str) ==
  {[text |-> SubSeq(str, se[1] + 1, se[2]), start_char |-> se[1], end_char |-> se[2],
    label_ |-> l] :
     se \in {x \in (0..Len(str)) \X (0..Len(str)) : x[1] < x[2]}, l \in Labels}

RECURSIVE SpanSeqs(_, _)
\* the sequences of at most n spans of a text
SpanSeqs(str, n) ==
  IF n = 0 THEN {<<>>}
  ELSE LET fewer == SpanSeqs(str, n - 1)
       IN fewer \cup {Append(sq, sp) : sq \in {x \in fewer : Len(x) = n - 1}, sp \in Spans(str)}

InitRun ==
  /\ IdleNorm
  /\ IdleMatch
  /\ IdleCalls
  /\ IdleSan
  /\ spacy_installed \in BOOLEAN
  /\ model_present \in BOOLEAN
  /\ stdin \in Stdins
  /\ known_names = <<>>
  /\ text = <<>>
  /\ ents = <<>>
  /\ pos = 1
  /\ entities = <<>>
  /\ stdout = <<>>
  /\ exit_code = <<>>
  /\ raised = ""
  /\ rpc = "import"

\* a faulty ExitWithError: the handler prints the error and falls through
ExitWithError_fallthrough(exception, message) ==
  /\ stdout' = Append(stdout, [error |-> message])
  /\ exit_code' = <<0>>
  /\ raised' = exception
  /\ rpc' = "exit"

\* print(json.dumps({"error": message})); sys.exit(1)
ExitWithError(exception, message) ==
  /\ stdout' = Append(stdout, [error |-> message])
  /\ exit_code' = <<1>>
  /\ raised' = exception
  /\ rpc' = "exit"

\* ner_extract.py:24-30  import spacy
ImportSpacy ==
  /\ rpc = "import"
  /\ IF spacy_installed
     THEN rpc' = "load" /\ UNCHANGED <<stdout, exit_code, raised>>
     ELSE ExitWithError("ImportError", "spaCy not installed")
  /\ UNCHANGED <<spacy_installed, model_present, stdin, text, ents, pos, entities,
                 known_names, normVars, matchVars, callVars, sanVars>>

\* ner_extract.py:33-39  nlp = spacy.load("en_core_web_sm")
LoadModel ==
  /\ rpc = "load"
  /\ IF model_present
     THEN rpc' = "main" /\ UNCHANGED <<stdout, exit_code, raised>>
     ELSE ExitWithError("OSError", "spaCy model not found")
  /\ UNCHANGED <<spacy_installed, model_present, stdin, text, ents, pos, entities,
                 known_names, normVars, matchVars, callVars, sanVars>>

\* ner_extract.py:92-95  json.loads(sys.stdin.read()) and the two .get calls
ReadRequest ==
  /\ rpc = "main"
  /\ IF stdin.kind = "malformed"
     THEN /\ ExitWithError("JSONDecodeError", "Invalid JSON input")
          /\ UNCHANGED <<text, known_names>>
     ELSE IF stdin.kind = "array"
     THEN \* a list has no attribute get
          /\ ExitWithError("Exception", "Processing error")
          /\ UNCHANGED <<text, known_names>>
     ELSE /\ text' = Get(stdin.data, "text", <<>>)
          /\ known_names' = Get(stdin.data, "known_names", <<>>)
          /\ rpc' = "nlp"
          /\ UNCHANGED <<stdout, exit_code, raised>>
  /\ UNCHANGED <<spacy_installed, model_present, stdin, ents, pos, entities,
                 normVars, matchVars, callVars, sanVars>>

\* ner_extract.py:72  doc = nlp(text): the recognizer returns its spans
Recognize ==
  /\ rpc = "nlp"
  /\ text # Null
  /\ ents' \in SpanSeqs(text, MaxSpans)
  /\ pos' = 1
  /\ entities' = <<>>
  /\ rpc' = "loop"
  /\ UNCHANGED <<spacy_installed, model_present, stdin, text, stdout, exit_code,
                 raised, known_names, normVars, matchVars, callVars, sanVars>>

\* ner_extract.py:72  doc = nlp(text) raises: the text is not a string, or
\* the recognizer fails on it
RecognizeFails ==
  /\ rpc = "nlp"
  /\ ExitWithError("Exception", "Processing error")
  /\ UNCHANGED <<spacy_installed, model_present, stdin, text, ents, pos, entities,
                 known_names, normVars, matchVars, callVars, sanVars>>

\* a faulty IsPerson: every labelled span is taken
IsPerson_any(ent) == ent.label_ # ""

\* ner_extract.py:76  ent.label_ == "PERSON"
IsPerson(ent) == ent.label_ = "PERSON"

\* ner_extract.py:78-84  the mention appended for a span
Mention(ent, ent_uin) ==
  [text |-> ent.text, start |-> ent.start_char, end |-> ent.end_char,
   label |-> "PERSON", uin |-> ent_uin]

\* ner_extract.py:77  the uin looked up for the span at the loop index
SpanUin == find_matching_uin(ents[pos].text, known_names)

\* ner_extract.py:75-84  one iteration of the loop over doc.ents: a span
\* with another label is passed over, the lookup raises, or the mention is
\* appended
ExtractStep ==
  /\ rpc = "loop"
  /\ pos <= Len(ents)
  /\ \/ /\ ~IsPerson(ents[pos])
        /\ pos' = pos + 1
        /\ UNCHANGED <<entities, stdout, exit_code, raised, rpc>>
     \/ /\ IsPerson(ents[pos])
        /\ SpanUin = Raised
        /\ ExitWithError("Exception", "Processing error")
        /\ UNCHANGED <<entities, pos>>
     \/ /\ IsPerson(ents[pos])
        /\ SpanUin # Raised
        /\ entities' = Append(entities, Mention(ents[pos], SpanUin))
        /\ pos' = pos + 1
        /\ UNCHANGED <<stdout, exit_code, raised, rpc>>
  /\ UNCHANGED <<spacy_installed, model_present, stdin, text, ents,
                 known_names, normVars, matchVars, callVars, sanVars>>

\* ner_extract.py:86, 98-102  the loop is over: return entities, print the
\* result
PrintResult ==
  /\ rpc = "loop"
  /\ pos > Len(ents)
  /\ stdout' = Append(stdout, [entities |-> entities])
  /\ rpc' = "printed"
  /\ UNCHANGED <<spacy_installed, model_present, stdin, text, ents, pos, entities,
                 exit_code, raised, known_names, normVars, matchVars, callVars, sanVars>>

\* ner_extract.py:112-113  main() returns and the interpreter exits
ExitOk ==
  /\ rpc = "printed"
  /\ exit_code' = <<0>>
  /\ rpc' = "exit"
  /\ UNCHANGED <<spacy_installed, model_present, stdin, text, ents, pos, entities,
                 stdout, raised, known_names, normVars, matchVars, callVars, sanVars>>

Next ==
  \/ ImportSpacy
  \/ LoadModel
  \/ ReadRequest
  \/ Recognize
  \/ RecognizeFails
  \/ ExtractStep
  \/ PrintResult
  \/ ExitOk

Spec == InitRun /\ [][Next]_vars

\* the positions of the PERSON spans, and the k-th of them
PersonPositions == {i \in 1..Len(ents) : ents[i].label_ = "PERSON"}
Nth(set, k) == CHOOSE i \in set : Cardinality({j \in set : j <= i}) = k

\* C3: extraction returns one mention per PERSON span and none for another
\* label, in the order of the spans, nothing merged or dropped; a mention has
\* its span's text and offsets, the label PERSON, and the uin that
\* find_matching_uin gives for the span's text and the whole roster; without
\* PERSON spans the result is empty.
C3_OneMentionPerPerson ==
  rpc = "printed" =>
    LET persons == PersonPositions
    IN /\ Len(entities) = Cardinality(persons)
       /\ \A k \in 1..Len(entities) :
            LET span == ents[Nth(persons, k)]
            IN entities[k] = [text |-> span.text, start |-> span.start_char,
                              end |-> span.end_char, label |-> "PERSON",
                              uin |-> find_matching_uin(span.text, known_names)]
       /\ persons = {} => entities = <<>>

\* C3 witness: the same PERSON span twice gives the same mention twice, with
\* a UIN of the roster
C3_Witness ==
  /\ rpc = "printed"
  /\ Len(ents) = 2
  /\ ents[1] = ents[2]
  /\ Len(entities) = 2
  /\ entities[1].uin \notin {Null, Raised}

\* C3 witness: a span with another label is dropped and the PERSON span
\* after it kept
C3_WitnessDropped ==
  /\ rpc = "printed"
  /\ Len(ents) = 2
  /\ ents[1].label_ = "ORG"
  /\ Len(entities) = 1
  /\ entities[1].text = ents[2].text

\* a request that cannot be served
BadEnvironment == ~spacy_installed \/ ~model_present \/ stdin.kind # "object"

IsEntities(response) == DOMAIN response = {"entities"}
IsError(response) == DOMAIN response = {"error"}

\* exit_code is empty while the script runs and holds its exit status after;
\* raised names the exception a handler caught, "" without one
C4_Responses ==
  /\ Len(stdout) <= 1
  /\ rpc = "exit" =>
       /\ Len(stdout) = 1
       /\ Len(exit_code) = 1
       /\ \/ raised = "" /\ IsEntities(stdout[1]) /\ exit_code[1] = 0
          \/ raised # "" /\ IsError(stdout[1]) /\ exit_code[1] # 0
       /\ BadEnvironment => raised # ""
  /\ raised # "" => rpc = "exit" /\ \A i \in 1..Len(stdout) : ~IsEntities(stdout[i])
  /\ rpc # "exit" => exit_code = <<>>

\* the steps the script has left at most
StepsLeft ==
  CASE rpc = "exit" -> 0
    [] rpc = "printed" -> 1
    [] rpc = "loop" -> 3 + Len(ents) - pos
    [] rpc = "nlp" -> 4 + MaxSpans
    [] rpc = "main" -> 5 + MaxSpans
    [] rpc = "load" -> 6 + MaxSpans
    [] rpc = "import" -> 7 + MaxSpans

Callers == {"c1", "c2"}
RosterIds == {"r1", "r2"}
SpanIds == {"s1"}

CallRosters ==
  { <<[name |-> <<"a", " ", "b">>, uin |-> <<"1">>], [name |-> <<"b">>, uin |-> <<"2">>]>>,
    <<[name |-> <<"B">>, uin |-> <<"1">>]>> }

CallSpans ==
  { <<[text |-> <<"b">>, start_char |-> 2, end_char |-> 3, label_ |-> "PERSON"],
      [text |-> <<"A">>, start_char |-> 0, end_char |-> 1, label_ |-> "PERSON"]>>,
    <<[text |-> <<"A", " ", "b">>, start_char |-> 0, end_char |-> 3, label_ |-> "ORG"],
      [text |-> <<"b">>, start_char |-> 2, end_char |-> 3, label_ |-> "PERSON"]>> }

NoFrame == [op |-> "none", calls |-> 0]

InitCalls ==
  /\ IdleNorm
  /\ IdleMatch
  /\ IdleRun
  /\ IdleSan
  /\ known_names = <<>>
  /\ rosters \in [RosterIds -> CallRosters]
  /\ spanlists \in [SpanIds -> CallSpans]
  /\ frames = [c \in Callers |-> NoFrame]
  /\ returned = {}

\* a faulty RosterAfterScan: the scan consumes the entries it has tried
RosterAfterScan_consumed(roster) == IF roster = <<>> THEN roster ELSE Tail(roster)

\* ner_extract.py:51-65  the roster after find_matching_uin has run over
\* it: the loop reads each entry with get and assigns to none
RosterAfterScan(roster) == roster

notCalls == <<normVars, matchVars, known_names, runVars, sanVars>>

\* ner_extract.py:70-74  a caller enters extract_person_entities
CallExtract ==
  /\ \E c \in Callers, r \in RosterIds, sp \in SpanIds :
       /\ frames[c].op = "none"
       /\ frames[c].calls < MaxCalls
       /\ frames' = [frames EXCEPT ![c] =
                       [op |-> "extract", roster |-> r, spans |-> sp, pos |-> 1,
                        entities |-> <<>>, args |-> <<spanlists[sp], rosters[r]>>,
                        calls |-> frames[c].calls + 1]]
  /\ UNCHANGED <<rosters, spanlists, returned, notCalls>>

\* ner_extract.py:75-84  one iteration of a caller's loop
CallIteration ==
  /\ \E c \in Callers :
       /\ frames[c].op = "extract"
       /\ frames[c].pos <= Len(spanlists[frames[c].spans])
       /\ LET f == frames[c]
              ent == spanlists[f.spans][f.pos]
          IN IF IsPerson(ent)
             THEN /\ frames' = [frames EXCEPT
                       ![c].entities =
                          Append(@, Mention(ent, find_matching_uin(ent.text, rosters[f.roster]))),
                       ![c].pos = @ + 1]
                  /\ rosters' = [rosters EXCEPT ![f.roster] = RosterAfterScan(@)]
             ELSE /\ frames' = [frames EXCEPT ![c].pos = @ + 1]
                  /\ UNCHANGED rosters
  /\ UNCHANGED <<spanlists, returned, notCalls>>

\* ner_extract.py:86  a caller's extract_person_entities returns
CallReturn ==
  /\ \E c \in Callers :
       /\ frames[c].op = "extract"
       /\ frames[c].pos > Len(spanlists[frames[c].spans])
       /\ returned' = returned \cup
            {[caller |-> c, op |-> "extract", args |-> frames[c].args,
              result |-> frames[c].entities]}
       /\ frames' = [frames EXCEPT ![c] = [op |-> "none", calls |-> frames[c].calls]]
  /\ UNCHANGED <<rosters, spanlists, notCalls>>

\* ner_extract.py:47-67  a caller calls find_matching_uin itself, with the
\* text of a span
CallMatch ==
  /\ \E c \in Callers, r \in RosterIds, sp \in SpanIds :
       \E k \in 1..Len(spanlists[sp]) :
         /\ frames[c].op = "none"
         /\ frames[c].calls < MaxCalls
         /\ returned' = returned \cup
              {[caller |-> c, op |-> "match",
                args |-> <<spanlists[sp][k].text, rosters[r]>>,
                result |-> find_matching_uin(spanlists[sp][k].text, rosters[r])]}
         /\ rosters' = [rosters EXCEPT ![r] = RosterAfterScan(@)]
         /\ frames' = [frames EXCEPT ![c].calls = @ + 1]
  /\ UNCHANGED <<spanlists, notCalls>>

NextCalls ==
  \/ CallExtract
  \/ CallIteration
  \/ CallReturn
  \/ CallMatch

SpecCalls == InitCalls /\ [][NextCalls]_vars

\* calls that returned agree when their arguments were equal
SameArgsSameResult ==
  \A x \in returned, y \in returned :
    (x.op = y.op /\ x.args = y.args) => x.result = y.result

Paths == {"in.pdf", "out.pdf"}

RECURSIVE ArgLists(_)
\* the command lines with at most n arguments after the script's name
ArgLists(n) ==
  IF n = 0 THEN {<<"sanitize_pdf.py">>}
  ELSE LET fewer == ArgLists(n - 1)
       IN fewer \cup {Append(a, q) : a \in {x \in fewer : Len(x) = n}, q \in Paths}

InitSanitize ==
  /\ IdleNorm
  /\ IdleMatch
  /\ IdleRun
  /\ IdleCalls
  /\ known_names = <<>>
  /\ argv \in ArgLists(MaxArgs)
  /\ files \in [Paths -> {"absent", "pdf", "garbage"}]
  /\ input_path = ""
  /\ output_path = ""
  /\ console = <<>>
  /\ status = <<>>
  /\ spc = "main"

\* sanitize_pdf.py:82  len(sys.argv) < 3
TooFewArguments == Len(argv) < 3

\* sanitize_pdf.py:82-88  the usage check and the two paths; sys.argv[k] is
\* argv[k + 1]
ParseArguments ==
  /\ spc = "main"
  /\ IF TooFewArguments
     THEN /\ console' = console \o <<"usage", "usage (overwrites in place)">>
          /\ status' = <<1>>
          /\ spc' = "exit"
          /\ UNCHANGED <<input_path, output_path>>
     ELSE /\ input_path' = argv[2]
          /\ output_path' = IF Len(argv) >= 3 THEN argv[3] ELSE argv[2]
          /\ spc' = "read"
          /\ UNCHANGED <<console, status>>
  /\ UNCHANGED <<argv, files, normVars, matchVars, known_names, runVars, callVars>>

\* sanitize_pdf.py:25-33, 96-101  PdfReader(input_path) and the pages read;
\* a missing file and a file that is no PDF end the run with an error
ReadInput ==
  /\ spc = "read"
  /\ IF files[input_path] = "absent"
     THEN /\ console' = Append(console, "File not found")
          /\ status' = <<1>>
          /\ spc' = "exit"
     ELSE IF files[input_path] = "garbage"
     THEN /\ console' = Append(console, "Error sanitizing PDF")
          /\ status' = <<1>>
          /\ spc' = "exit"
     ELSE /\ spc' = "write"
          /\ UNCHANGED <<console, status>>
  /\ UNCHANGED <<argv, files, input_path, output_path,
                 normVars, matchVars, known_names, runVars, callVars>>

\* sanitize_pdf.py:36-48  the pages with the fixed metadata written to
\* output_path
WriteOutput ==
  /\ spc = "write"
  /\ files' = [files EXCEPT ![output_path] = "sanitized"]
  /\ spc' = "strip"
  /\ UNCHANGED <<argv, input_path, output_path, console, status,
                 normVars, matchVars, known_names, runVars, callVars>>

\* sanitize_pdf.py:51-66  the output read again and written without its
\* /Metadata reference; a failure is passed over
StripXmp ==
  /\ spc = "strip"
  /\ \/ files' = [files EXCEPT ![output_path] = "sanitized"]
     \/ UNCHANGED files
  /\ spc' = "report"
  /\ UNCHANGED <<argv, input_path, output_path, console, status,
                 normVars, matchVars, known_names, runVars, callVars>>

\* sanitize_pdf.py:92-95, 104-105  the report, and the exit with status 0
Report ==
  /\ spc = "report"
  /\ console' = Append(console, "PDF sanitized successfully")
  /\ status' = <<0>>
  /\ spc' = "exit"
  /\ UNCHANGED <<argv, files, input_path, output_path,
                 normVars, matchVars, known_names, runVars, callVars>>

NextSanitize ==
  \/ ParseArguments
  \/ ReadInput
  \/ WriteOutput
  \/ StripXmp
  \/ Report

SpecSanitize == InitSanitize /\ [][NextSanitize]_vars

\* C8: the destination path is optional: with the input path alone the
\* sanitizer sanitizes the file and writes the result over the input,
\* instead of failing; with a destination, the result is written there.
C8_DestinationOptional ==
  spc = "exit" =>
    /\ (Len(argv) = 2 /\ files[argv[2]] \in {"pdf", "sanitized"}) =>
         status = <<0>> /\ files[argv[2]] = "sanitized"
    /\ (Len(argv) >= 3 /\ status = <<0>>) => files[argv[3]] = "sanitized"

\* the part of C8 the code keeps: a destination that is given is written
C8_DestinationWritten ==
  (spc = "exit" /\ Len(argv) >= 3 /\ files[argv[2]] \in {"pdf", "sanitized"}) =>
    status = <<0>> /\ files[argv[3]] = "sanitized"

====
